---- MODULE Spec2Model ----
(***************************************************************************)
(* Model of the rshark dissection core: the field decoders `signed` and   *)
(* `unsigned`, the `raw` fallback, the Ethernet, IP and TCP dissectors,    *)
(* the navigation of a value (get, get_path, lookup) and the bit-flag      *)
(* accessors.                                                              *)
(*                                                                         *)
(* A byte buffer is a sequence of naturals below 256 (1-based here, the    *)
(* source is 0-based: data[i] of the source is data[i + 1] of the model).  *)
(* A u64 does not fit a model integer, so it is kept as its eight bytes,   *)
(* most significant first; usize values (lengths, offsets) stay integers.  *)
(* Formatted text is kept as a sequence of pieces: literal pieces of the   *)
(* format string and one piece per formatted character.                    *)
(***************************************************************************)
EXTENDS Integers, Sequences, FiniteSets, TLC

\* data: the byte buffer a call is given; tree: the value a call navigates;
\* arg: the call's other argument (an endianness, a name, a list of names,
\* a path, a bit index), "" when it has none; op: the call made ("none"
\* before it); result: what the call returned.
VARIABLES data, tree, arg, op, result

vars == <<data, tree, arg, op, result>>

(***************************************************************************)
(* Bounds of the explored inputs.                                          *)
(***************************************************************************)
MaxLen == 36

MaxWindow == 9

MaxChildren == 2

MaxPath == 3

(***************************************************************************)
(* Results, errors and values.                                             *)
(***************************************************************************)
Ok(v) == [ok |-> TRUE, val |-> v]

Err(e) == [ok |-> FALSE, err |-> e]

Underflow(expected, have, message) ==
    [kind |-> "Underflow", expected |-> expected, have |-> have,
     message |-> message]

InvalidData(message) == [kind |-> "InvalidData", message |-> message]

\* An index or slice bound out of range, or an unwrap of an Err: the call
\* does not return.
Panic == Err([kind |-> "Panic"])

IsPanic(r) == r = Panic

\* No dissector has been called yet.
NoResult == Err([kind |-> "None"])

\* No value is navigated.
NoTree == [variant |-> "None"]

Unsigned(v) == [variant |-> "Unsigned", val |-> v]

Symbol(s) == [variant |-> "Symbol", sym |-> s]

Address(bytes, encoded) ==
    [variant |-> "Address", bytes |-> bytes, encoded |-> encoded]

BitFlags8(flags, names) ==
    [variant |-> "BitFlags8", flags |-> flags, names |-> names]

Object(values) == [variant |-> "Object", values |-> values]

Payload(r) == [variant |-> "Payload", result |-> r]

Bytes(b) == [variant |-> "Bytes", bytes |-> b]

\* One (name, value) entry of an Object.
NamedValue(name, val) == [name |-> name, val |-> val]

(***************************************************************************)
(* Slices and integers.                                                    *)
(***************************************************************************)
\* &data[lo..hi] of the source (0-based, hi exclusive).
slice(s, lo, hi) == SubSeq(s, lo + 1, hi)

\* Whether &data[lo..hi] is within a buffer of length len.
InBounds(lohi, len) == lohi[1] <= lohi[2] /\ lohi[2] <= len

AllInBounds(slices, len) ==
    \A k \in 1..Len(slices) : InBounds(slices[k], len)

Reverse(s) == [k \in 1..Len(s) |-> s[Len(s) + 1 - k]]

Zeros(n) == [k \in 1..n |-> 0]

\* The u64 read from at most eight bytes given most significant first.
ZeroExtend(s) == Zeros(8 - Len(s)) \o s

\* `n as u64` for a value that fits a model integer.
U64(n) ==
    <<0, 0, 0, 0,
      (n \div 16777216) % 256, (n \div 65536) % 256, (n \div 256) % 256,
      n % 256>>

\* a <= b on u64.
U64Leq(a, b) ==
    LET diff == {k \in 1..8 : a[k] # b[k]}
    IN  \/ diff = {}
        \/ LET first == CHOOSE k \in diff : \A j \in diff : k <= j
           IN  a[first] < b[first]

DigitChars ==
    <<"0", "1", "2", "3", "4", "5", "6", "7", "8", "9",
      "a", "b", "c", "d", "e", "f">>

RECURSIVE fmt_dec(_)
\* `{}` / to_string() of an unsigned value that fits a model integer.
fmt_dec(n) ==
    IF n < 10 THEN <<DigitChars[n + 1]>>
    ELSE fmt_dec(n \div 10) \o <<DigitChars[(n % 10) + 1]>>

RECURSIVE StripZeros(_)
StripZeros(s) ==
    IF Len(s) > 1 /\ s[1] = 0 THEN StripZeros(Tail(s)) ELSE s

\* The sixteen hexadecimal digits of a u64, most significant first.
Nibbles(v) ==
    [k \in 1..16 |->
        IF k % 2 = 1 THEN v[(k + 1) \div 2] \div 16 ELSE v[k \div 2] % 16]

\* Variant: `{}` in place of `{:x}`.
fmt_hex_dec(v) ==
    fmt_dec(v[5] * 16777216 + v[6] * 65536 + v[7] * 256 + v[8])

\* `{:x}` of a u64: lower-case hexadecimal without leading zeros.
fmt_hex(v) ==
    LET digits == StripZeros(Nibbles(v))
    IN  [k \in 1..Len(digits) |-> DigitChars[digits[k] + 1]]

\* Variant: a 3-byte window is read as an integer too.
unsigned_accepts_3(buffer, endianness) ==
    IF Len(buffer) \in {1, 2, 3, 4, 8}
    THEN Ok(ZeroExtend(IF endianness = "BigEndian" THEN buffer
                       ELSE Reverse(buffer)))
    ELSE Err(InvalidData(<<"Invalid integer size: ">>
                         \o fmt_dec(Len(buffer)) \o <<" B">>))

\* Variant: the two byte orders exchanged.
unsigned_swapped(buffer, endianness) ==
    IF Len(buffer) = 1 THEN Ok(U64(buffer[1]))
    ELSE IF Len(buffer) \in {2, 4, 8}
    THEN Ok(ZeroExtend(IF endianness = "BigEndian" THEN Reverse(buffer)
                       ELSE buffer))
    ELSE Err(InvalidData(<<"Invalid integer size: ">>
                         \o fmt_dec(Len(buffer)) \o <<" B">>))

\* unsigned(buffer, endianness): the window length selects the integer width.
unsigned(buffer, endianness) ==
    IF Len(buffer) = 1 THEN Ok(U64(buffer[1]))
    ELSE IF Len(buffer) \in {2, 4, 8}
    THEN Ok(ZeroExtend(IF endianness = "BigEndian" THEN buffer
                       ELSE Reverse(buffer)))
    ELSE Err(InvalidData(<<"Invalid integer size: ">>
                         \o fmt_dec(Len(buffer)) \o <<" B">>))

\* The i64 (two's complement, eight bytes) read from at most eight bytes
\* given most significant first: `read_iN() as i64`.
SignExtend(s) ==
    [k \in 1..(8 - Len(s)) |-> IF s[1] >= 128 THEN 255 ELSE 0] \o s

\* signed(buffer, endianness): a 1-byte window is `buffer[0] as i64`, the
\* cast of a u8.
signed(buffer, endianness) ==
    IF Len(buffer) = 1 THEN Ok(U64(buffer[1]))
    ELSE IF Len(buffer) \in {2, 4, 8}
    THEN Ok(SignExtend(IF endianness = "BigEndian" THEN buffer
                       ELSE Reverse(buffer)))
    ELSE Err(InvalidData(<<"Invalid integer size: ">>
                         \o fmt_dec(Len(buffer)) \o <<" B">>))

\* Dissector of last resort.
raw(d) == Ok(Object(<<NamedValue("raw data", Bytes(d))>>))

Some(x) == <<x>>

None == <<>>

(***************************************************************************)
(* ip::tcp::dissect                                                        *)
(***************************************************************************)
tcp_too_short(d) == Len(d) < 20

\* Variant: the offset taken as a byte count, not as 32-bit words.
tcp_header_lenght_unscaled(d) == d[13]

\* let offset = data[12]; let header_lenght = offset as usize * 4;
tcp_header_lenght(d) == d[13] * 4

\* Variant: the header length is not compared with the buffer length.
tcp_header_check_dropped(d) == FALSE

\* if header_lenght > data.len()
tcp_header_underflow(d) == tcp_header_lenght(d) > Len(d)

\* The index ranges the code reads, in order, once the minimum-length check
\* has passed; the ranges after the header-length check are read only when
\* that check passes.
tcp_slices(d) ==
    <<<<0, 2>>, <<2, 4>>, <<4, 8>>, <<8, 12>>, <<12, 13>>>>
    \o (IF tcp_header_underflow(d) THEN <<>>
        ELSE <<<<14, 15>>, <<14, 16>>, <<16, 18>>, <<18, 20>>>>
             \o (IF tcp_header_lenght(d) > 20
                 THEN <<<<20, tcp_header_lenght(d)>>>> ELSE <<>>)
             \o <<<<tcp_header_lenght(d), Len(d)>>>>)

\* The decoder results the code unwraps, in order.
tcp_unwraps(d) ==
    <<unsigned(slice(d, 0, 2), "BigEndian"),
      unsigned(slice(d, 2, 4), "BigEndian"),
      unsigned(slice(d, 4, 8), "BigEndian"),
      unsigned(slice(d, 8, 12), "BigEndian")>>
    \o (IF tcp_header_underflow(d) THEN <<>>
        ELSE <<unsigned(slice(d, 14, 16), "BigEndian"),
               unsigned(slice(d, 18, 20), "BigEndian")>>)

tcp_panics(d) ==
    \/ ~AllInBounds(tcp_slices(d), Len(d))
    \/ \E k \in 1..Len(tcp_unwraps(d)) : ~tcp_unwraps(d)[k].ok

tcp_flag_names ==
    <<Some("CWR"), Some("ECE"), Some("URG"), Some("ACK"),
      Some("PSH"), Some("RST"), Some("SYN"), Some("FIN")>>

tcp_values(d) ==
    <<NamedValue("Source Port",
                 Unsigned(unsigned(slice(d, 0, 2), "BigEndian").val)),
      NamedValue("Destination Port",
                 Unsigned(unsigned(slice(d, 2, 4), "BigEndian").val)),
      NamedValue("Sequence Number",
                 Unsigned(unsigned(slice(d, 4, 8), "BigEndian").val)),
      NamedValue("Acknowledgement Number",
                 Unsigned(unsigned(slice(d, 8, 12), "BigEndian").val)),
      NamedValue("Offset", Unsigned(U64(d[13]))),
      NamedValue("Flags", BitFlags8(d[15], tcp_flag_names)),
      NamedValue("Window",
                 Unsigned(unsigned(slice(d, 14, 16), "BigEndian").val)),
      NamedValue("Checksum", Bytes(slice(d, 16, 18))),
      NamedValue("Urgent Pointer",
                 Unsigned(unsigned(slice(d, 18, 20), "BigEndian").val))>>
    \o (IF tcp_header_lenght(d) > 20
        THEN <<NamedValue("Options",
                          Bytes(slice(d, 20, tcp_header_lenght(d))))>>
        ELSE <<>>)
    \o <<NamedValue("Payload",
                    Payload(raw(slice(d, tcp_header_lenght(d), Len(d)))))>>

tcp_dissect(d) ==
    IF tcp_too_short(d)
    THEN Err(Underflow(20, Len(d),
                       <<"An TCP packet must be at least 20 B">>))
    ELSE IF tcp_panics(d) THEN Panic
    ELSE IF tcp_header_underflow(d)
    THEN Err(Underflow(tcp_header_lenght(d), Len(d),
        <<"TCP packet offset (header length) greater than available data">>))
    ELSE Ok(Object(tcp_values(d)))

(***************************************************************************)
(* ip::dissect                                                             *)
(***************************************************************************)
ip_too_short(d) == Len(d) < 20

RECURSIVE join(_, _)
\* pieces.join(sep)
join(pieces, sep) ==
    IF Len(pieces) = 0 THEN <<>>
    ELSE IF Len(pieces) = 1 THEN pieces[1]
    ELSE pieces[1] \o <<sep>> \o join(Tail(pieces), sep)

\* Variant: the address bytes joined with ':'.
ip_encode_colon(bytes) ==
    join([k \in 1..Len(bytes) |-> fmt_dec(bytes[k])], ":")

\* source.iter().map(|b| b.to_string()).collect::<Vec<_>>().join(".")
ip_encode(bytes) == join([k \in 1..Len(bytes) |-> fmt_dec(bytes[k])], ".")

\* match protocol { _ => raw }
ip_dissect_pdu(protocol) == "raw"

ip_slices(d) ==
    <<<<0, 1>>, <<1, 2>>, <<2, 4>>, <<8, 9>>, <<9, 10>>, <<10, 12>>,
      <<12, 16>>, <<16, 20>>, <<20, Len(d)>>>>

ip_length(d) ==
    LET length == unsigned(slice(d, 2, 4), "BigEndian")
    IN  IF length.ok THEN Ok(Unsigned(length.val)) ELSE Err(length.err)

ip_header_values(d) ==
    <<NamedValue("Version", Ok(Unsigned(U64(d[1] \div 16)))),
      NamedValue("IHL", Ok(Unsigned(U64(d[1] % 16)))),
      NamedValue("DSCP", Ok(Unsigned(U64(d[2] \div 4)))),
      NamedValue("ECN", Ok(Unsigned(U64(d[2] % 4)))),
      NamedValue("Length", ip_length(d)),
      NamedValue("Identification", Ok(Unsigned(U64(d[9])))),
      NamedValue("Protocol", Ok(Unsigned(U64(d[10])))),
      NamedValue("Checksum", Ok(Bytes(slice(d, 10, 12)))),
      NamedValue("Source",
                 Ok(Address(slice(d, 12, 16), ip_encode(slice(d, 12, 16))))),
      NamedValue("Destination",
                 Ok(Address(slice(d, 16, 20), ip_encode(slice(d, 16, 20)))))>>

\* Calls the dissector a dispatch selected.
Apply(dissector, d) ==
    CASE dissector = "raw" -> raw(d)
      [] dissector = "tcp::dissect" -> tcp_dissect(d)

ip_dissect(d) ==
    IF ip_too_short(d)
    THEN Err(Underflow(20, Len(d), <<"An IP packet must be at least 20 B">>))
    ELSE IF ~AllInBounds(ip_slices(d), Len(d)) THEN Panic
    ELSE LET pdu == Apply(ip_dissect_pdu(d[10]), slice(d, 20, Len(d)))
         IN  IF IsPanic(pdu) THEN Panic
             ELSE Ok(Object(ip_header_values(d)
                            \o <<NamedValue("Protocol Data", pdu)>>))

(***************************************************************************)
(* ethernet::dissect                                                       *)
(***************************************************************************)
\* Variant: the guard covers the two addresses only.
ethernet_too_short_12(d) == Len(d) < 12

ethernet_too_short(d) == Len(d) < 14

\* Variant: 0x800 keeps its label but is handed to the raw fallback.
ethernet_protocol_ip_as_raw(i) ==
    IF i = U64(2048)
    THEN [protocol |-> Ok(<<"IP", "IP data">>), dissector |-> "raw"]
    ELSE [protocol |-> Err(InvalidData(<<"unknown protocol: ">>
                                       \o fmt_hex(i))),
          dissector |-> "raw"]

\* match i { 0x800 => ..., 0x806 => ..., 0x8138 => ..., 0x86dd => ..., _ => ... }
ethernet_protocol(i) ==
    CASE i = U64(2048) ->
           [protocol |-> Ok(<<"IP", "IP data">>), dissector |-> "ip::dissect"]
      [] i = U64(2054) ->
           [protocol |-> Ok(<<"ARP", "ARB data">>), dissector |-> "raw"]
      [] i = U64(33080) ->
           [protocol |-> Ok(<<"IPX", "IPX data">>), dissector |-> "raw"]
      [] i = U64(34525) ->
           [protocol |-> Ok(<<"IPv6", "IPVv6 data">>), dissector |-> "raw"]
      [] OTHER ->
           [protocol |-> Err(InvalidData(<<"unknown protocol: ">>
                                         \o fmt_hex(i))),
            dissector |-> "raw"]

\* The Dissector function pointer the Ethernet dispatch selected.
ethernet_apply(dissector, d) ==
    IF dissector = "ip::dissect" THEN ip_dissect(d) ELSE Apply(dissector, d)

ethernet_slices(d) == <<<<0, 6>>, <<6, 12>>, <<12, 14>>, <<14, Len(d)>>>>

ethernet_dissect(d) ==
    IF ethernet_too_short(d)
    THEN Err(Underflow(14, Len(d),
                       <<"An Ethernet frame must be at least 14 B">>))
    ELSE IF ~AllInBounds(ethernet_slices(d), Len(d)) THEN Panic
    ELSE
    LET values == <<NamedValue("Destination", Ok(Bytes(slice(d, 0, 6)))),
                    NamedValue("Source", Ok(Bytes(slice(d, 6, 12))))>>
        tlen == unsigned(slice(d, 12, 14), "BigEndian")
        remainder == slice(d, 14, Len(d))
    IN  IF tlen.ok /\ U64Leq(tlen.val, U64(1500))
        THEN Ok(Object(values
                       \o <<NamedValue("Length", Ok(Unsigned(tlen.val)))>>))
        ELSE IF tlen.ok
        THEN LET sel == ethernet_protocol(tlen.val)
                 ty == IF sel.protocol.ok
                       THEN Ok(Symbol(sel.protocol.val[1]))
                       ELSE Err(sel.protocol.err)
                 subname == IF sel.protocol.ok THEN sel.protocol.val[2]
                            ELSE "Unknown protocol data"
                 sub == ethernet_apply(sel.dissector, remainder)
             IN  IF IsPanic(sub) THEN Panic
                 ELSE Ok(Object(values
                                \o <<NamedValue("Type", ty),
                                     NamedValue(subname, sub)>>))
        ELSE Ok(Object(values \o <<NamedValue("Type/length", Err(tlen.err))>>))

(***************************************************************************)
(* Val::get                                                                *)
(***************************************************************************)
\* fmt::Display for DissectError.
display(error) ==
    IF error.kind = "Underflow"
    THEN <<"underflow (expected ">> \o fmt_dec(error.expected)
         \o <<", have ">> \o fmt_dec(error.have) \o <<"): ">>
         \o error.message
    ELSE <<"invalid data: ">> \o error.message

\* AccessError::not_found: the text is made of the index and of the Debug
\* form of the value, kept here as the value.
not_found(index, val) == [kind |-> "NotFound", index |-> index, val |-> val]

\* AccessError::dissect_error
dissect_error(index, error) ==
    [kind |-> "DissectError",
     desc |-> <<"Val::Payload under index '", index, "' contains error: ">>
              \o display(error)]

\* AccessError::leaf_variant: the text is the Debug form of the value, kept
\* here as the value.
leaf_variant(val) == [kind |-> "LeafVariant", val |-> val]

RECURSIVE get_last(_, _)
\* Variant: an Object gives the last child of the name, not the first.
get_last(val, index) ==
    CASE val.variant = "Object" ->
           LET hits == {k \in 1..Len(val.values) : val.values[k].name = index}
           IN  IF hits = {} THEN Err(not_found(index, val))
               ELSE Ok(val.values[CHOOSE k \in hits : \A j \in hits : k >= j].val)
      [] val.variant = "Payload" /\ val.result.ok ->
           get_last(val.result.val, index)
      [] val.variant = "Payload" /\ ~val.result.ok ->
           Err(dissect_error(index, val.result.err))
      [] OTHER -> Err(leaf_variant(val))

RECURSIVE get(_, _)
get(val, index) ==
    CASE val.variant = "Object" ->
           LET hits == {k \in 1..Len(val.values) : val.values[k].name = index}
           IN  IF hits = {} THEN Err(not_found(index, val))
               ELSE Ok(val.values[CHOOSE k \in hits : \A j \in hits : k <= j].val)
      [] val.variant = "Payload" /\ val.result.ok -> get(val.result.val, index)
      [] val.variant = "Payload" /\ ~val.result.ok ->
           Err(dissect_error(index, val.result.err))
      [] OTHER -> Err(leaf_variant(val))

\* The closure get_path folds over the keys.
get_path_step(acc, index) == IF acc.ok THEN get(acc.val, index) ELSE acc

RECURSIVE get_path_fold(_, _)
get_path_fold(acc, keys) ==
    IF Len(keys) = 0 THEN acc
    ELSE get_path_fold(get_path_step(acc, keys[1]), Tail(keys))

\* Variant: the keys are folded from the right.
get_path_rfold(val, keys) == get_path_fold(Ok(val), Reverse(keys))

\* keys.iter().fold(Ok(self), ...)
get_path(val, keys) == get_path_fold(Ok(val), keys)

RECURSIVE split_from(_, _, _)
\* path.split('.'): the pieces between the '.' characters, one more than
\* there are '.' characters (the empty path has one, empty, piece).
split_from(chars, cur, acc) ==
    IF Len(chars) = 0 THEN Append(acc, cur)
    ELSE IF chars[1] = "." THEN split_from(Tail(chars), "", Append(acc, cur))
    ELSE split_from(Tail(chars), cur \o chars[1], acc)

split(path) == split_from(path, "", <<>>)

\* Result::ok()
ok(r) == IF r.ok THEN Some(r.val) ELSE None

\* Variant: a failed step gives the value reached so far.
lookup_step_keeps(acc, index) ==
    IF acc # None
    THEN (IF get(acc[1], index).ok THEN ok(get(acc[1], index)) ELSE acc)
    ELSE None

\* The closure lookup folds over the pieces of the path.
lookup_step(acc, index) ==
    IF acc # None THEN ok(get(acc[1], index)) ELSE None

RECURSIVE lookup_fold(_, _)
lookup_fold(acc, keys) ==
    IF Len(keys) = 0 THEN acc
    ELSE lookup_fold(lookup_step(acc, keys[1]), Tail(keys))

\* path.split('.').fold(Some(self), ...)
lookup(val, path) == lookup_fold(Some(val), split(path))

(***************************************************************************)
(* Val::as_bitflags8_bit_no, Val::as_bitflags8_bit_name                    *)
(***************************************************************************)
RECURSIVE shl(_, _)
\* a << n on a u8 (bits shifted out are lost).
shl(a, n) == IF n = 0 THEN a ELSE shl((a * 2) % 256, n - 1)

RECURSIVE bitand(_, _)
\* a & b
bitand(a, b) ==
    IF a = 0 \/ b = 0 THEN 0
    ELSE (a % 2) * (b % 2) + 2 * bitand(a \div 2, b \div 2)

\* Variant: bit 0 is taken to be the most significant bit.
bit_mask_msb_first(bit) == shl(1, 7 - bit)

\* 1 << bit
bit_mask(bit) == shl(1, bit)

as_bitflags8_bit_no(val, bit) ==
    IF ~(bit < 8) THEN Panic
    ELSE IF val.variant = "BitFlags8"
    THEN Some(bitand(bit_mask(bit), val.flags) > 0)
    ELSE None

\* names.into_iter().position(|&n| n == Some(name)), 0-based.
position(names, name) ==
    LET hits == {k \in 1..Len(names) : names[k] = Some(name)}
    IN  IF hits = {} THEN None
        ELSE Some((CHOOSE k \in hits : \A j \in hits : k <= j) - 1)

as_bitflags8_bit_name(val, name) ==
    IF val.variant = "BitFlags8"
    THEN (IF position(val.names, name) # None
          THEN as_bitflags8_bit_no(val, position(val.names, name)[1])
          ELSE None)
    ELSE None

(***************************************************************************)
(* Inputs: a filler pattern with chosen bytes at the offsets the           *)
(* dissectors branch on, cut at every length up to MaxLen, and the frames  *)
(* of the repository's tests.                                              *)
(***************************************************************************)
Filler(i) == (i * 37 + 11) % 256

\* Bytes 12 and 13: the Ethernet type/length field, the TCP offset byte.
Key12 ==
    {<<8, 0>>, <<8, 6>>, <<129, 55>>, <<129, 56>>, <<134, 221>>,
     <<153, 153>>, <<5, 220>>, <<5, 221>>, <<0, 0>>, <<6, 18>>, <<9, 18>>,
     <<80, 18>>, <<160, 18>>, <<240, 18>>}

\* Byte 0: the IP version and IHL.
Key0 == {69, 70, 79, 101}

\* Byte 1: the IP DSCP and ECN.
Key1 == {0, 185}

\* Byte 9: the IP protocol number.
Key9 == {6, 17}

\* Byte 14: the version and IHL of an IP packet nested in a frame.
Key14 == {69, 18}

MkData(len, b0, b1, b9, b12, b14) ==
    [k \in 1..len |->
        CASE k = 1 -> b0
          [] k = 2 -> b1
          [] k = 10 -> b9
          [] k = 13 -> b12[1]
          [] k = 14 -> b12[2]
          [] k = 15 -> b14
          [] OTHER -> Filler(k - 1)]

EthernetTestFrame ==
    <<132, 56, 53, 69, 73, 136, 156, 32, 123, 233, 26, 2, 8, 0>>

IpTestPacket ==
    <<69, 0, 0, 60, 0, 0, 64, 0, 46, 6, 161, 36, 46, 137, 186, 243, 192, 168,
      1, 115, 1, 187, 252, 235, 74, 97, 130, 175, 50, 220, 74, 238, 160, 18,
      56, 144, 237, 13, 0, 0, 2, 4, 5, 180, 4, 2, 8, 10, 15, 68, 221, 156,
      29, 26, 35, 62, 1, 3, 3, 6>>

TcpTestSegment ==
    <<1, 187, 252, 235, 74, 97, 130, 175, 50, 220, 74, 238, 5, 18, 56, 144,
      237, 13, 0, 0, 2, 4, 5, 180, 4, 2, 8, 10, 15, 68, 221, 156, 29, 26,
      35, 62, 1, 3, 3, 6>>

Inputs ==
    {MkData(len, b0, b1, b9, b12, b14) :
        len \in 0..MaxLen, b0 \in Key0, b1 \in Key1, b9 \in Key9,
        b12 \in Key12, b14 \in Key14}
    \cup {EthernetTestFrame, IpTestPacket, TcpTestSegment,
          SubSeq(IpTestPacket, 21, 60)}

(***************************************************************************)
(* The state machine: a buffer arrives, one dissector is called on it.     *)
(***************************************************************************)
Init ==
    /\ data \in Inputs
    /\ tree = NoTree
    /\ arg = ""
    /\ op = "none"
    /\ result = NoResult

DissectEthernet ==
    /\ op = "none"
    /\ op' = "ethernet"
    /\ result' = ethernet_dissect(data)
    /\ UNCHANGED <<data, tree, arg>>

DissectIp ==
    /\ op = "none"
    /\ op' = "ip"
    /\ result' = ip_dissect(data)
    /\ UNCHANGED <<data, tree, arg>>

DissectTcp ==
    /\ op = "none"
    /\ op' = "tcp"
    /\ result' = tcp_dissect(data)
    /\ UNCHANGED <<data, tree, arg>>

DissectRaw ==
    /\ op = "none"
    /\ op' = "raw"
    /\ result' = raw(data)
    /\ UNCHANGED <<data, tree, arg>>

Next == DissectEthernet \/ DissectIp \/ DissectTcp \/ DissectRaw

Spec == Init /\ [][Next]_vars

(***************************************************************************)
(* The field decoders on their own: a byte window arrives, one decoder is  *)
(* called on it with a byte order.                                         *)
(***************************************************************************)
Endianness == {"BigEndian", "LittleEndian"}

WindowBytes == {0, 1, 127, 128, 255}

MkWindow(len, first, last) ==
    [k \in 1..len |->
        IF k = 1 THEN first ELSE IF k = len THEN last ELSE Filler(k)]

Windows ==
    {MkWindow(len, first, last) :
        len \in 0..MaxWindow, first \in WindowBytes, last \in WindowBytes}

InitDecode ==
    /\ data \in Windows
    /\ tree = NoTree
    /\ arg = ""
    /\ op = "none"
    /\ result = NoResult

DecodeSigned ==
    /\ op = "none"
    /\ \E endianness \in Endianness :
          /\ arg' = endianness
          /\ result' = signed(data, endianness)
    /\ op' = "signed"
    /\ UNCHANGED <<data, tree>>

DecodeUnsigned ==
    /\ op = "none"
    /\ \E endianness \in Endianness :
          /\ arg' = endianness
          /\ result' = unsigned(data, endianness)
    /\ op' = "unsigned"
    /\ UNCHANGED <<data, tree>>

NextDecode == DecodeSigned \/ DecodeUnsigned

SpecDecode == InitDecode /\ [][NextDecode]_vars

(***************************************************************************)
(* Navigation: a built value arrives, one of get, get_path and lookup is   *)
(* called on it.  The values are Objects of up to MaxChildren children     *)
(* named "foo" or "bar" (so names repeat), whose values are leaves,        *)
(* Objects and Payloads of successes and failures, and these on their own. *)
(***************************************************************************)
NavNames == {"foo", "bar", "baz"}

NavChildren ==
    {Unsigned(U64(42)),
     Object(<<NamedValue("bar", Bytes(<<1, 2>>)),
              NamedValue("bar", Unsigned(U64(42)))>>),
     Payload(Ok(Object(<<NamedValue("bar", Unsigned(U64(42)))>>))),
     Payload(Err(InvalidData(<<"error">>))),
     Payload(Ok(Unsigned(U64(42)))),
     Payload(Ok(Payload(Err(Underflow(20, 0,
         <<"An IP packet must be at least 20 B">>)))))}

NavEntries == {NamedValue(name, child) : name \in {"foo", "bar"},
                                         child \in NavChildren}

RECURSIVE SeqsUpTo(_, _)
\* The sequences of at most n elements of S.
SeqsUpTo(S, n) ==
    IF n = 0 THEN {<<>>}
    ELSE LET shorter == SeqsUpTo(S, n - 1)
         IN  shorter \cup {Append(q, x) : q \in shorter, x \in S}

NavTrees ==
    {Object(values) : values \in SeqsUpTo(NavEntries, MaxChildren)}
    \cup NavChildren

\* The characters of a name.
Chars(name) ==
    CASE name = "foo" -> <<"f", "o", "o">>
      [] name = "bar" -> <<"b", "a", "r">>
      [] name = "baz" -> <<"b", "a", "z">>

\* The dotted path of a list of names.
Dotted(keys) == join([k \in 1..Len(keys) |-> Chars(keys[k])], ".")

NavKeys == SeqsUpTo(NavNames, MaxPath)

\* The paths of the lists of names, and paths with an empty piece.
NavPaths ==
    {Dotted(keys) : keys \in NavKeys}
    \cup {<<".">>, <<"f", "o", "o", ".">>, <<"f", "o", "o", ".", ".", "b", "a", "r">>}

InitNav ==
    /\ tree \in NavTrees
    /\ data = <<>>
    /\ arg = ""
    /\ op = "none"
    /\ result = NoResult

Get ==
    /\ op = "none"
    /\ \E index \in NavNames :
          /\ arg' = index
          /\ result' = get(tree, index)
    /\ op' = "get"
    /\ UNCHANGED <<data, tree>>

GetPath ==
    /\ op = "none"
    /\ \E keys \in NavKeys :
          /\ arg' = keys
          /\ result' = get_path(tree, keys)
    /\ op' = "get_path"
    /\ UNCHANGED <<data, tree>>

Lookup ==
    /\ op = "none"
    /\ \E path \in NavPaths :
          /\ arg' = path
          /\ result' = lookup(tree, path)
    /\ op' = "lookup"
    /\ UNCHANGED <<data, tree>>

NextNav == Get \/ GetPath \/ Lookup

SpecNav == InitNav /\ [][NextNav]_vars

(***************************************************************************)
(* Bit flags: a BitFlags8 value arrives (every byte, with the names of the *)
(* library's test, of the TCP dissector, or with a repeated name), one of  *)
(* the two accessors is called on it.                                      *)
(***************************************************************************)
FlagNames ==
    {<<Some("foo"), None, Some("bar"), None, None, None, Some("baz"), None>>,
     tcp_flag_names,
     <<None, Some("bar"), None, Some("foo"), Some("bar"), None, None,
       Some("SYN")>>}

FlagQueries == {"foo", "bar", "baz", "quix", "SYN"}

FlagValues ==
    {BitFlags8(flags, names) : flags \in 0..255, names \in FlagNames}

InitFlags ==
    /\ tree \in FlagValues
    /\ data = <<>>
    /\ arg = ""
    /\ op = "none"
    /\ result = NoResult

BitNo ==
    /\ op = "none"
    /\ \E bit \in 0..8 :
          /\ arg' = bit
          /\ result' = as_bitflags8_bit_no(tree, bit)
    /\ op' = "bit_no"
    /\ UNCHANGED <<data, tree>>

BitName ==
    /\ op = "none"
    /\ \E name \in FlagQueries :
          /\ arg' = name
          /\ result' = as_bitflags8_bit_name(tree, name)
    /\ op' = "bit_name"
    /\ UNCHANGED <<data, tree>>

NextFlags == BitNo \/ BitName

SpecFlags == InitFlags /\ [][NextFlags]_vars

(***************************************************************************)
(* Helpers of the properties: readers of what the dissectors produced.     *)
(***************************************************************************)
\* The value of a u64 whose upper half is zero.
ToInt(v) == v[5] * 16777216 + v[6] * 65536 + v[7] * 256 + v[8]

FitsInt(v) == v[1] = 0 /\ v[2] = 0 /\ v[3] = 0 /\ v[4] = 0 /\ v[5] < 128

\* The digit a character stands for, -1 for any other character.
DigitVal(c) ==
    IF \E k \in 0..15 : DigitChars[k + 1] = c
    THEN CHOOSE k \in 0..15 : DigitChars[k + 1] = c
    ELSE -1

RECURSIVE ParseBase(_, _, _)
\* The number a sequence of digit characters reads as in a base, -1 when a
\* character is no digit of that base.
ParseBase(chars, base, acc) ==
    IF Len(chars) = 0 THEN acc
    ELSE IF DigitVal(chars[1]) < 0 \/ DigitVal(chars[1]) >= base THEN -1
    ELSE ParseBase(Tail(chars), base, acc * base + DigitVal(chars[1]))

RECURSIVE SplitDots(_, _, _)
\* The pieces of a character sequence between its '.' characters.
SplitDots(chars, cur, acc) ==
    IF Len(chars) = 0 THEN Append(acc, cur)
    ELSE IF chars[1] = "." THEN SplitDots(Tail(chars), <<>>, Append(acc, cur))
    ELSE SplitDots(Tail(chars), Append(cur, chars[1]), acc)

\* The numbers of a dotted-decimal text.
ParseDotted(chars) ==
    LET pieces == SplitDots(chars, <<>>, <<>>)
    IN  [k \in 1..Len(pieces) |->
            IF Len(pieces[k]) = 0 THEN -1 ELSE ParseBase(pieces[k], 10, 0)]

\* The Ethernet type/length field of the buffer, as a number.
EtherType == data[13] * 256 + data[14]

Called == op # "none"

(***************************************************************************)
(* Properties.                                                             *)
(***************************************************************************)

\* C1: on every input, of every length, each of the Ethernet, IP, TCP and
\* raw dissectors returns a tree or an Underflow or InvalidData error: no
\* index range the code reads leaves the buffer, and every decoder result
\* the code unwraps is Ok.
C1_DissectorsAreTotal ==
    Called =>
        /\ result.ok \/ result.err.kind \in {"Underflow", "InvalidData"}
        /\ (op = "ethernet" /\ Len(data) >= 14
                => AllInBounds(ethernet_slices(data), Len(data)))
        /\ (op = "ip" /\ Len(data) >= 20
                => AllInBounds(ip_slices(data), Len(data)))
        /\ (op = "tcp" /\ Len(data) >= 20
                => /\ AllInBounds(tcp_slices(data), Len(data))
                   /\ \A k \in 1..Len(tcp_unwraps(data)) :
                          tcp_unwraps(data)[k].ok)

\* C1 witness: TCP dissection sliced an options region and a payload out of
\* a buffer and returned a tree.
C1_Witness ==
    /\ op = "tcp"
    /\ Len(data) >= 20
    /\ data[13] * 4 > 20
    /\ result.ok

\* C2: an input shorter than the fixed header (Ethernet 14, IP 20, TCP 20)
\* gives Underflow with expected = that size and have = the input's length,
\* and no tree.
C2_ShortInputUnderflows ==
    /\ (op = "ethernet" /\ Len(data) < 14
            => /\ ~result.ok
               /\ result.err.kind = "Underflow"
               /\ result.err.expected = 14
               /\ result.err.have = Len(data))
    /\ (op \in {"ip", "tcp"} /\ Len(data) < 20
            => /\ ~result.ok
               /\ result.err.kind = "Underflow"
               /\ result.err.expected = 20
               /\ result.err.have = Len(data))

\* C2 witness: a 13-byte frame was refused by the Ethernet dissector.
C2_Witness ==
    /\ op = "ethernet"
    /\ Len(data) = 13
    /\ ~result.ok
    /\ result.err.kind = "Underflow"

\* C3: a frame of type 0x0800 with fewer than 20 bytes after offset 14 is
\* dissected: Destination, Source, Type = IP, then a child holding the IP
\* dissector's Underflow{expected: 20, have: len - 14}.
C3_NestedIpFailureIsData ==
    op = "ethernet" /\ Len(data) >= 14 /\ EtherType = 2048
        /\ Len(data) - 14 < 20
    => result =
        Ok(Object(<<
            NamedValue("Destination", Ok(Bytes(SubSeq(data, 1, 6)))),
            NamedValue("Source", Ok(Bytes(SubSeq(data, 7, 12)))),
            NamedValue("Type", Ok(Symbol("IP"))),
            NamedValue("IP data",
                Err(Underflow(20, Len(data) - 14,
                              <<"An IP packet must be at least 20 B">>)))>>))

\* C3 witness: an IP frame with some, but fewer than 20, bytes after the
\* Ethernet header was dissected.
C3_Witness ==
    /\ op = "ethernet"
    /\ Len(data) > 14
    /\ Len(data) - 14 < 20
    /\ EtherType = 2048
    /\ result.ok

C4_UnknownLabels == {"Unknown", "Unknown protocol", "Unknown protocol data"}

C5_Selection(t) ==
    CASE t = 2048 -> [label |-> Some("IP"), dissector |-> "ip::dissect"]
      [] t = 2054 -> [label |-> Some("ARP"), dissector |-> "raw"]
      [] t \in {33079, 33080} -> [label |-> Some("IPX"), dissector |-> "raw"]
      [] t = 34525 -> [label |-> Some("IPv6"), dissector |-> "raw"]
      [] OTHER -> [label |-> None, dissector |-> "raw"]

\* C5: for a frame whose type/length field exceeds 1500 the next dissector
\* is selected by value: 0x0800 IP, 0x0806 ARP (raw), 0x8137 and 0x8138 IPX
\* (raw), 0x86DD IPv6 (raw), any other value unknown; it is applied to bytes
\* [14:len).
C5_DispatchByType ==
    op = "ethernet" /\ Len(data) >= 14 /\ EtherType > 1500
    => /\ result.ok
       /\ Len(result.val.values) = 4
       /\ LET sel == C5_Selection(EtherType)
              ty == result.val.values[3]
              sub == result.val.values[4]
              remainder == SubSeq(data, 15, Len(data))
          IN  /\ ty.name = "Type"
              /\ IF sel.label # None
                 THEN ty.val = Ok(Symbol(sel.label[1]))
                 ELSE ~ty.val.ok /\ ty.val.err.kind = "InvalidData"
              /\ sub.val = IF sel.dissector = "ip::dissect"
                           THEN ip_dissect(remainder) ELSE raw(remainder)

\* C6: for an IP input of at least 20 bytes the nested outcome is the TCP
\* dissector's outcome on the remaining bytes when byte 9 is 6, and the raw
\* fallback's for every other protocol number.
C6_DispatchByProtocol ==
    op = "ip" /\ Len(data) >= 20
    => /\ result.ok
       /\ LET values == result.val.values
              remainder == SubSeq(data, 21, Len(data))
          IN  values[Len(values)].val =
                  IF data[10] = 6 THEN tcp_dissect(remainder)
                  ELSE raw(remainder)

\* C7: for an IP input of at least 20 bytes the header length IHL * 4 is
\* checked against the input length: Underflow with expected = IHL * 4 when
\* it exceeds it; otherwise bytes [20:IHL * 4) are reported as options when
\* IHL * 4 > 20 and the next dissector gets the bytes from offset IHL * 4.
C7_IhlIsRevalidated ==
    op = "ip" /\ Len(data) >= 20
    => LET hl == (data[1] % 16) * 4
           remainder == SubSeq(data, hl + 1, Len(data))
       IN  IF hl > Len(data)
           THEN /\ ~result.ok
                /\ result.err.kind = "Underflow"
                /\ result.err.expected = hl
           ELSE /\ result.ok
                /\ LET values == result.val.values
                   IN  /\ hl > 20 =>
                            \E k \in 1..Len(values) :
                                /\ values[k].name = "Options"
                                /\ values[k].val \in
                                     {Ok(Bytes(SubSeq(data, 21, hl))),
                                      Bytes(SubSeq(data, 21, hl))}
                       /\ values[Len(values)].val \in
                            {raw(remainder), tcp_dissect(remainder)}

\* C8: for a TCP input of at least 20 bytes the header length used for the
\* bounds check and for slicing options and payload is 4 times the high
\* nibble of byte 12, so at most 60.
C8_OffsetIsHighNibble ==
    op = "tcp" /\ Len(data) >= 20
    => LET hl == (data[13] \div 16) * 4
       IN  /\ hl <= 60
           /\ tcp_header_lenght(data) = hl
           /\ IF hl > Len(data)
              THEN /\ ~result.ok
                   /\ result.err.kind = "Underflow"
                   /\ result.err.expected = hl
              ELSE /\ result.ok
                   /\ LET values == result.val.values
                      IN  values[Len(values)].val =
                              Payload(raw(SubSeq(data, hl + 1, Len(data))))

\* C9: for a TCP input of at least 20 bytes whose header length (4 times
\* the offset the code reads at byte 12) exceeds the input length, the
\* result is Underflow with expected = that header length and have = the
\* input length, and nothing past the fixed header has been read.
C9_TcpHeaderLengthIsRevalidated ==
    op = "tcp" /\ Len(data) >= 20 /\ data[13] * 4 > Len(data)
    => /\ result =
            Err(Underflow(data[13] * 4, Len(data),
                <<"TCP packet offset (header length) greater than available data">>))
       /\ \A k \in 1..Len(tcp_slices(data)) : tcp_slices(data)[k][2] <= 20

\* C9 witness: a TCP segment announcing a header longer than the buffer was
\* refused.
C9_Witness ==
    /\ op = "tcp"
    /\ Len(data) >= 20
    /\ data[13] * 4 > Len(data)
    /\ ~result.ok
    /\ result.err.kind = "Underflow"

C10_Names ==
    <<"Version", "IHL", "DSCP", "ECN", "Length", "Identification",
      "Protocol", "Checksum", "Source", "Destination">>

\* C10: for an IP input of at least 20 bytes the tree reports, in order,
\* Version and IHL (the nibbles of byte 0), DSCP and ECN (the top 6 and
\* bottom 2 bits of byte 1), Length (bytes [2:4) big-endian), Identification
\* (byte 8), Protocol (byte 9), Checksum (bytes [10:12)), Source (bytes
\* [12:16)) and Destination (bytes [16:20)), each address with the
\* dotted-decimal text of its four bytes.
C10_IpHeaderFields ==
    op = "ip" /\ Len(data) >= 20
    => /\ result.ok
       /\ Len(result.val.values) >= 10
       /\ LET values == result.val.values
              num(k) == ToInt(values[k].val.val.val)
          IN  /\ \A k \in 1..10 :
                    values[k].name = C10_Names[k] /\ values[k].val.ok
              /\ \A k \in 1..7 :
                    /\ values[k].val.val.variant = "Unsigned"
                    /\ FitsInt(values[k].val.val.val)
              /\ num(1) * 16 + num(2) = data[1] /\ num(2) < 16
              /\ num(3) * 4 + num(4) = data[2] /\ num(4) < 4
              /\ num(5) = data[3] * 256 + data[4]
              /\ num(6) = data[9]
              /\ num(7) = data[10]
              /\ values[8].val.val = Bytes(SubSeq(data, 11, 12))
              /\ values[9].val.val.variant = "Address"
              /\ values[9].val.val.bytes = SubSeq(data, 13, 16)
              /\ ParseDotted(values[9].val.val.encoded) = SubSeq(data, 13, 16)
              /\ values[10].val.val.variant = "Address"
              /\ values[10].val.val.bytes = SubSeq(data, 17, 20)
              /\ ParseDotted(values[10].val.val.encoded)
                    = SubSeq(data, 17, 20)
              /\ data = IpTestPacket =>
                    /\ values[9].val.val.encoded =
                        <<"4", "6", ".", "1", "3", "7", ".", "1", "8", "6",
                          ".", "2", "4", "3">>
                    /\ values[10].val.val.encoded =
                        <<"1", "9", "2", ".", "1", "6", "8", ".", "1", ".",
                          "1", "1", "5">>

\* C10 witness: the IP packet of the repository's test was dissected.
C10_Witness ==
    /\ op = "ip"
    /\ data = IpTestPacket
    /\ result.ok

\* The k-th most significant byte of the window a decoder was given, in the
\* byte order it was given.
WindowMsb(k) ==
    IF arg = "BigEndian" THEN data[k] ELSE data[Len(data) + 1 - k]

\* C11: for a window of 1, 2, 4 or 8 bytes and either byte order the signed
\* decoder returns the window's two's-complement value sign-extended to 64
\* bits (a 1-byte window of 128..255 gives byte - 256).
C11_SignedIsSignExtended ==
    op = "signed" /\ Len(data) \in {1, 2, 4, 8}
    => /\ result.ok
       /\ LET pad == 8 - Len(data)
          IN  result.val =
                [k \in 1..8 |->
                    IF k <= pad
                    THEN (IF WindowMsb(1) >= 128 THEN 255 ELSE 0)
                    ELSE WindowMsb(k - pad)]

\* C12: for a window whose length is not 1, 2, 4 or 8 both decoders return
\* InvalidData "Invalid integer size: <length> B", whatever the bytes are;
\* for the lengths 1, 2, 4 and 8 the unsigned decoder returns the window's
\* value in the given byte order, zero-extended.
C12_BadWidthIsInvalidData ==
    /\ (op \in {"signed", "unsigned"} /\ Len(data) \notin {1, 2, 4, 8}
            => /\ ~result.ok
               /\ result.err.kind = "InvalidData"
               /\ LET message == result.err.message
                  IN  /\ Len(message) >= 3
                      /\ message[1] = "Invalid integer size: "
                      /\ message[Len(message)] = " B"
                      /\ ParseBase(SubSeq(message, 2, Len(message) - 1),
                                   10, 0) = Len(data))
    /\ (op = "unsigned" /\ Len(data) \in {1, 2, 4, 8}
            => /\ result.ok
               /\ LET pad == 8 - Len(data)
                  IN  result.val =
                        [k \in 1..8 |->
                            IF k <= pad THEN 0 ELSE WindowMsb(k - pad)])

\* C12 witness: the unsigned decoder refused a 3-byte window.
C12_Witness ==
    /\ op = "unsigned"
    /\ Len(data) = 3
    /\ ~result.ok
    /\ result.err.kind = "InvalidData"

RECURSIVE C13_Expected(_, _)
\* What C13 states get returns: the first child of the name, found going
\* through the children in order, or the kind of the failure.
C13_Expected(v, name) ==
    IF v.variant = "Object"
    THEN LET firsts == {k \in 1..Len(v.values) :
                           /\ v.values[k].name = name
                           /\ \A j \in 1..(k - 1) : v.values[j].name # name}
         IN  IF firsts = {} THEN [kind |-> "NotFound"]
             ELSE [kind |-> "Found",
                   val |-> v.values[CHOOSE k \in firsts : TRUE].val]
    ELSE IF v.variant = "Payload"
    THEN (IF v.result.ok THEN C13_Expected(v.result.val, name)
          ELSE [kind |-> "DissectError", error |-> v.result.err])
    ELSE [kind |-> "LeafVariant"]

\* C13: get(name) returns, on an Object, the first child of that name in
\* insertion order or NotFound; on a Payload of a success, what get returns
\* on the wrapped value; on a Payload of a failure, DissectError with the
\* description of the wrapped error; on any other value, LeafVariant.
C13_GetByVariant ==
    op = "get"
    => LET e == C13_Expected(tree, arg)
       IN  IF e.kind = "Found" THEN result = Ok(e.val)
           ELSE /\ ~result.ok
                /\ result.err.kind = e.kind
                /\ e.kind = "DissectError" =>
                     LET desc == result.err.desc
                         message == e.error.message
                     IN  /\ desc[2] = arg
                         /\ desc[4] = (IF e.error.kind = "InvalidData"
                                       THEN "invalid data: "
                                       ELSE "underflow (expected ")
                         /\ SubSeq(desc, Len(desc) - Len(message) + 1,
                                   Len(desc)) = message
                         /\ e.error = InvalidData(<<"error">>) =>
                              desc = <<"Val::Payload under index '", arg,
                                       "' contains error: ",
                                       "invalid data: ", "error">>

\* C13 witness: get found a name that two children of an Object carry with
\* different values.
C13_Witness ==
    /\ op = "get"
    /\ tree.variant = "Object"
    /\ Len(tree.values) = 2
    /\ tree.values[1].name = arg
    /\ tree.values[2].name = arg
    /\ tree.values[1].val # tree.values[2].val
    /\ result.ok

RECURSIVE C14_Walk(_, _)
\* What C14 states get_path returns: get applied name after name, stopping
\* at the first failure.
C14_Walk(v, keys) ==
    IF Len(keys) = 0 THEN Ok(v)
    ELSE LET r == get(v, keys[1])
         IN  IF r.ok THEN C14_Walk(r.val, Tail(keys)) ELSE r

\* C14: get_path applies get to the names from left to right; it returns the
\* value reached after the last name (the value itself for no names) or the
\* error of the first step that fails, whatever names follow.
C14_GetPathShortCircuits ==
    op = "get_path"
    => /\ result = C14_Walk(tree, arg)
       /\ Len(arg) = 0 => result = Ok(tree)
       /\ \A n \in 1..Len(arg) :
            ~get_path(tree, SubSeq(arg, 1, n)).ok
                => result = get_path(tree, SubSeq(arg, 1, n))

\* C14 witness: the first name failed although the second one, looked up
\* alone, is found.
C14_Witness ==
    /\ op = "get_path"
    /\ Len(arg) >= 2
    /\ ~get(tree, arg[1]).ok
    /\ get(tree, arg[2]).ok
    /\ ~result.ok

\* C15: lookup(path) returns the value get_path returns on the names of the
\* path (the path split at every '.'), and nothing whenever get_path returns
\* NotFound, DissectError or LeafVariant.
C15_LookupIsGetPath ==
    op = "lookup"
    => LET keys == split(arg)
           dots == Cardinality({k \in 1..Len(arg) : arg[k] = "."})
           gp == get_path(tree, keys)
       IN  /\ Len(keys) = dots + 1
           /\ IF gp.ok THEN result = Some(gp.val)
              ELSE /\ result = None
                   /\ gp.err.kind \in
                        {"NotFound", "DissectError", "LeafVariant"}

\* C15 witness: a path of two names was found.
C15_Witness ==
    /\ op = "lookup"
    /\ Len(split(arg)) = 2
    /\ result # None

\* C16: the by-name accessor returns whether bit i of the byte is set for
\* the (first) index i that carries the name, as the by-index accessor does
\* at i, and nothing when no index carries it; the by-index accessor returns
\* whether (byte >> index) & 1 = 1.
C16_FlagAccessors ==
    /\ (op = "bit_no" /\ arg < 8
            => result = Some((tree.flags \div 2 ^ arg) % 2 = 1))
    /\ (op = "bit_name"
            => LET carriers == {i \in 0..7 : tree.names[i + 1] = Some(arg)}
               IN  IF carriers = {} THEN result = None
                   ELSE LET i == CHOOSE c \in carriers :
                                    \A o \in carriers : c <= o
                        IN  /\ result = Some((tree.flags \div 2 ^ i) % 2 = 1)
                            /\ result = as_bitflags8_bit_no(tree, i))

\* C16 witness: the flags 0b01011100 of the library's test were asked for
\* "bar", which bit 2 carries.
C16_Witness ==
    /\ op = "bit_name"
    /\ arg = "bar"
    /\ tree.flags = 92
    /\ tree.names[3] = Some("bar")
    /\ result = Some(TRUE)

\* C17: when TCP dissection succeeds, Source Port and Destination Port are
\* the big-endian 16-bit values of bytes [0:2) and [2:4), Sequence Number
\* and Acknowledgement Number the big-endian 32-bit values of bytes [4:8)
\* and [8:12), each found by name as an Unsigned node.
C17_TcpPortsAndNumbers ==
    op = "tcp" /\ result.ok
    => LET sport == get(result.val, "Source Port")
           dport == get(result.val, "Destination Port")
           seqno == get(result.val, "Sequence Number")
           ackno == get(result.val, "Acknowledgement Number")
           \* The 16-bit halves of a value below 2^32.
           upper(v) == v[5] * 256 + v[6]
           lower(v) == v[7] * 256 + v[8]
           below32(v) == v[1] = 0 /\ v[2] = 0 /\ v[3] = 0 /\ v[4] = 0
       IN  /\ \A r \in {sport, dport, seqno, ackno} :
                r.ok /\ r.val.variant = "Unsigned" /\ below32(r.val.val)
           /\ upper(sport.val.val) = 0
           /\ lower(sport.val.val) = data[1] * 256 + data[2]
           /\ upper(dport.val.val) = 0
           /\ lower(dport.val.val) = data[3] * 256 + data[4]
           /\ upper(seqno.val.val) = data[5] * 256 + data[6]
           /\ lower(seqno.val.val) = data[7] * 256 + data[8]
           /\ upper(ackno.val.val) = data[9] * 256 + data[10]
           /\ lower(ackno.val.val) = data[11] * 256 + data[12]
           /\ data = TcpTestSegment =>
                /\ lower(sport.val.val) = 443
                /\ lower(dport.val.val) = 64747

\* C17 witness: the TCP segment of the repository's test was dissected.
C17_Witness ==
    /\ op = "tcp"
    /\ data = TcpTestSegment
    /\ result.ok

\* C18: when TCP dissection succeeds, the Options bytes (none when absent)
\* followed by the bytes of the raw Payload are exactly bytes [20:len) of
\* the input, and the header length used for slicing is at least 20.
C18_TcpTailIsPartitioned ==
    op = "tcp" /\ result.ok
    => LET values == result.val.values
           hits == {k \in 1..Len(values) : values[k].name = "Options"}
           options == IF hits = {} THEN <<>>
                      ELSE values[CHOOSE k \in hits : TRUE].val.bytes
           payload == values[Len(values)].val.result.val.values[1].val.bytes
       IN  /\ options \o payload = SubSeq(data, 21, Len(data))
           /\ tcp_header_lenght(data) >= 20

====
